---- MODULE Spec2Model ----
(***************************************************************************)
(* pepystats: a command-line client of the pepy.tech download statistics   *)
(* API.  The model follows src/pepystats/api.py and src/pepystats/cli.py:  *)
(* one HTTP GET, the normalisation of the JSON payload into rows           *)
(* (date, downloads, label), the months-back window, the client-side       *)
(* resampling, the pivot and the printing.                                 *)
(*                                                                         *)
(* A date string "YYYY-MM-DD" is the triple <<y, m, d>> of its fields; a   *)
(* pandas Timestamp normalised to midnight UTC is its number of days since *)
(* 1970-01-01.  A DataFrame is the sequence of its rows.                   *)
(***************************************************************************)
EXTENDS Integers, Sequences, FiniteSets

VARIABLES
    pc,      \* position of the run: which statement comes next
    args,    \* the parsed arguments of the call or of the command line
    now,     \* pd.Timestamp.now(tz="UTC").normalize(), in days since 1970-01-01
    r,       \* the response of requests.get
    df,      \* the DataFrame the run holds
    ret,     \* the DataFrame a library call returned
    exc,     \* the exception raised, "none" when there is none
    stdout,  \* what print has written, one element per non-empty write
    rc       \* the exit status of the process, -1 while it runs

vars == <<pc, args, now, r, df, ret, exc, stdout, rc>>

(***************************************************************************)
(* Bounds of the model.                                                    *)
(***************************************************************************)
\* rows of a DataFrame handed to a helper
MaxRows == 2
\* largest count of a generated payload entry
MaxCount == 1
\* largest downloads value of a generated row
MaxDownloads == 2
\* dates of a generated payload
MaxDates == 2

(***************************************************************************)
(* Calendar arithmetic, as pandas Timestamps do it.                        *)
(***************************************************************************)
IsLeap(y) == (y % 4 = 0 /\ y % 100 # 0) \/ y % 400 = 0

DaysInMonth(y, m) ==
    IF m = 2 THEN (IF IsLeap(y) THEN 29 ELSE 28)
    ELSE IF m \in {4, 6, 9, 11} THEN 30 ELSE 31

\* leap years in 1..n
LeapsUpTo(n) == (n \div 4) - (n \div 100) + (n \div 400)

\* days from 1970-01-01 to the first of January of y
DaysBeforeYear(y) == 365 * (y - 1970) + LeapsUpTo(y - 1) - LeapsUpTo(1969)

\* days from the first of January to the first of month m in a common year
CumulativeDays == <<0, 31, 59, 90, 120, 151, 181, 212, 243, 273, 304, 334>>

DaysBeforeMonth(y, m) == CumulativeDays[m] + (IF m > 2 /\ IsLeap(y) THEN 1 ELSE 0)

\* pd.to_datetime(series, utc=True).dt.tz_localize(None) of one date string
_to_naive_utc(date) ==
    DaysBeforeYear(date[1]) + DaysBeforeMonth(date[1], date[2]) + date[3] - 1

YearOf(t) ==
    CHOOSE y \in (1970 + t \div 366)..(1970 + t \div 365) :
        DaysBeforeYear(y) <= t /\ t < DaysBeforeYear(y + 1)

MonthOf(t) ==
    LET y == YearOf(t)
        doy == t - DaysBeforeYear(y)
    IN  CHOOSE m \in 1..12 :
            /\ DaysBeforeMonth(y, m) <= doy
            /\ doy < DaysBeforeMonth(y, m) + DaysInMonth(y, m)

\* series.dt.strftime("%Y-%m-%d") of one Timestamp
strftime(t) ==
    LET y == YearOf(t)
        m == MonthOf(t)
    IN  <<y, m, t - DaysBeforeYear(y) - DaysBeforeMonth(y, m) + 1>>

\* Timestamp.weekday(): Monday is 0, Saturday is 5; 1970-01-01 was a Thursday
weekday(t) == (t + 3) % 7

Min(a, b) == IF a <= b THEN a ELSE b

\* t - pd.DateOffset(months=months): the same day of the earlier month, clamped
\* to the last day of that month
MinusDateOffsetMonths(t, months) ==
    LET d     == strftime(t)
        total == d[1] * 12 + (d[2] - 1) - months
        y     == total \div 12
        m     == (total % 12) + 1
    IN  _to_naive_utc(<<y, m, Min(d[3], DaysInMonth(y, m))>>)

(***************************************************************************)
(* Orders of strings.  TLA+ strings carry no order, so the labels of the   *)
(* model are ranked by their place in this lexicographically sorted list.  *)
(***************************************************************************)
LabelOrder == <<"1.0", "2.0", "3.0", "A", "B", "total">>

LabelRank(l) == CHOOSE i \in 1..Len(LabelOrder) : LabelOrder[i] = l

\* "YYYY-MM-DD" strings compare as their fields do
DateLess(a, b) ==
    \/ a[1] < b[1]
    \/ a[1] = b[1] /\ a[2] < b[2]
    \/ a[1] = b[1] /\ a[2] = b[2] /\ a[3] < b[3]

Row(date, downloads, label) ==
    [date |-> date, downloads |-> downloads, label |-> label]

RECURSIVE SumDownloads(_)
SumDownloads(rows) ==
    IF rows = <<>> THEN 0 ELSE Head(rows).downloads + SumDownloads(Tail(rows))

RECURSIVE SortedDates(_)
\* the date strings of the finite set S in ascending order
SortedDates(S) ==
    IF S = {} THEN <<>>
    ELSE LET lo == CHOOSE x \in S : \A z \in S \ {x} : DateLess(x, z)
         IN  <<lo>> \o SortedDates(S \ {lo})

RECURSIVE SortedLabels(_)
\* the labels of the finite set S in ascending order
SortedLabels(S) ==
    IF S = {} THEN <<>>
    ELSE LET lo == CHOOSE x \in S : \A z \in S \ {x} : LabelRank(x) < LabelRank(z)
         IN  <<lo>> \o SortedLabels(S \ {lo})

RECURSIVE Concat(_)
Concat(seqs) == IF seqs = <<>> THEN <<>> ELSE Head(seqs) \o Concat(Tail(seqs))

(***************************************************************************)
(* The months-back window.                                                 *)
(***************************************************************************)
\* a faulty variant: months = 0 is no longer an opt-out
_trim_months_zero_trims(frame, months, today) ==
    IF frame = <<>> \/ months < 0 THEN frame
    ELSE LET cutoff == MinusDateOffsetMonths(today, months)
             kept   == SelectSeq(frame, LAMBDA row : _to_naive_utc(row.date) >= cutoff)
         IN  [i \in 1..Len(kept) |->
                 [kept[i] EXCEPT !.date = strftime(_to_naive_utc(kept[i].date))]]

\* a faulty variant: a row dated on the cutoff is dropped
_trim_months_exclusive(frame, months, today) ==
    IF frame = <<>> \/ months = 0 \/ months <= 0 THEN frame
    ELSE LET cutoff == MinusDateOffsetMonths(today, months)
             kept   == SelectSeq(frame, LAMBDA row : _to_naive_utc(row.date) > cutoff)
         IN  [i \in 1..Len(kept) |->
                 [kept[i] EXCEPT !.date = strftime(_to_naive_utc(kept[i].date))]]

_trim_months(frame, months, today) ==
    IF frame = <<>> \/ months = 0 \/ months <= 0 THEN frame
    ELSE LET cutoff == MinusDateOffsetMonths(today, months)
             kept   == SelectSeq(frame, LAMBDA row : _to_naive_utc(row.date) >= cutoff)
         IN  [i \in 1..Len(kept) |->
                 [kept[i] EXCEPT !.date = strftime(_to_naive_utc(kept[i].date))]]

(***************************************************************************)
(* Client-side resampling.  Series.resample(rule).sum() returns one value  *)
(* for every bucket from the bucket of the earliest date of the group to   *)
(* the bucket of its latest date, and sums to 0 over a bucket without rows.*)
(***************************************************************************)
Granularities == {"daily", "weekly", "monthly", "yearly"}

\* a faulty variant: weeks that close on Sunday
WeekEndSunday(t) == t + ((6 - weekday(t)) % 7)

\* the Saturday on or after t: the label of the "W-SAT" bucket holding t
WeekEnd(t) == t + ((5 - weekday(t)) % 7)

\* months since year 0 of the month holding t
MonthIndex(t) == LET d == strftime(t) IN d[1] * 12 + (d[2] - 1)

\* the first day of the month with that index: the label of an "MS" bucket
MonthStart(k) == _to_naive_utc(<<k \div 12, (k % 12) + 1, 1>>)

\* the first day of year y: the label of a "YS" bucket
YearStart(y) == _to_naive_utc(<<y, 1, 1>>)

\* the labels of the buckets resample lays over the dates lo..hi
BucketLabels(lo, hi, granularity) ==
    IF granularity = "weekly"
    THEN [i \in 1..((WeekEnd(hi) - WeekEnd(lo)) \div 7 + 1) |-> WeekEnd(lo) + 7 * (i - 1)]
    ELSE IF granularity = "monthly"
    THEN [i \in 1..(MonthIndex(hi) - MonthIndex(lo) + 1) |-> MonthStart(MonthIndex(lo) + i - 1)]
    ELSE [i \in 1..(YearOf(hi) - YearOf(lo) + 1) |-> YearStart(YearOf(lo) + i - 1)]

\* the label of the bucket that holds date t
BucketOf(t, granularity) ==
    IF granularity = "weekly" THEN WeekEnd(t)
    ELSE IF granularity = "monthly" THEN MonthStart(MonthIndex(t))
    ELSE YearStart(YearOf(t))

\* a faulty variant: only the buckets that hold a row are returned
ResampleSparse(grp, label, granularity) ==
    LET times  == {_to_naive_utc(grp[i].date) : i \in 1..Len(grp)}
        lo     == CHOOSE t \in times : \A u \in times : t <= u
        hi     == CHOOSE t \in times : \A u \in times : u <= t
        labels == SelectSeq(BucketLabels(lo, hi, granularity),
                            LAMBDA b : \E t \in times : BucketOf(t, granularity) = b)
    IN  [i \in 1..Len(labels) |->
            Row(labels[i],
                SumDownloads(SelectSeq(grp, LAMBDA row :
                    BucketOf(_to_naive_utc(row.date), granularity) = labels[i])),
                label)]

\* g["downloads"].resample(rule).sum().reset_index() with the label column set
Resample(grp, label, granularity) ==
    LET times  == {_to_naive_utc(grp[i].date) : i \in 1..Len(grp)}
        lo     == CHOOSE t \in times : \A u \in times : t <= u
        hi     == CHOOSE t \in times : \A u \in times : u <= t
        labels == BucketLabels(lo, hi, granularity)
    IN  [i \in 1..Len(labels) |->
            Row(labels[i],
                SumDownloads(SelectSeq(grp, LAMBDA row :
                    BucketOf(_to_naive_utc(row.date), granularity) = labels[i])),
                label)]

_apply_granularity(frame, granularity) ==
    IF frame = <<>> \/ granularity = "daily" THEN frame
    ELSE IF granularity \notin {"weekly", "monthly", "yearly"} THEN frame
    ELSE LET groups == SortedLabels({frame[i].label : i \in 1..Len(frame)})
             out == Concat([k \in 1..Len(groups) |->
                        Resample(SelectSeq(frame, LAMBDA row : row.label = groups[k]),
                                 groups[k], granularity)])
         IN  [i \in 1..Len(out) |-> [out[i] EXCEPT !.date = strftime(out[i].date)]]

(***************************************************************************)
(* The JSON payload.  A JSON object is the sequence of its <<key, value>>  *)
(* pairs in document order (a Python dict iterates in that order); a count *)
(* is <<n>>, JSON null is <<>>.  The value under a date is a record with   *)
(* isdict TRUE and the pairs of the per-version object, or with isdict     *)
(* FALSE and a bare count.                                                 *)
(***************************************************************************)
\* int(v or 0)
IntOrZero(v) == IF v = <<>> THEN 0 ELSE v[1]

\* a faulty variant: only the first version of a date is counted
SumCountsFirstOnly(items) ==
    IF items = <<>> THEN 0 ELSE IntOrZero(Head(items)[2])

RECURSIVE SumCounts(_)
\* sum(int(v or 0) for v in ver_map.values())
SumCounts(items) ==
    IF items = <<>> THEN 0 ELSE IntOrZero(Head(items)[2]) + SumCounts(Tail(items))

\* data.get("downloads") or {}
_parse_v2_downloads(data) ==
    IF "downloads" \in DOMAIN data THEN data.downloads ELSE <<>>

\* the rows get_overall builds from the payload
overall_rows(data) ==
    LET items == _parse_v2_downloads(data)
    IN  [i \in 1..Len(items) |->
            Row(items[i][1],
                IF items[i][2].isdict THEN SumCounts(items[i][2].items)
                ELSE IntOrZero(items[i][2].value),
                "total")]

\* a faulty variant: the requested versions are not applied
version_rows_unfiltered(date, ver_map, want) ==
    IF ~ver_map.isdict THEN <<>>
    ELSE [j \in 1..Len(ver_map.items) |->
             Row(date, IntOrZero(ver_map.items[j][2]), ver_map.items[j][1])]

\* the rows get_versions builds from one date of the payload
version_rows(date, ver_map, want) ==
    IF ~ver_map.isdict THEN <<>>
    ELSE LET hit == SelectSeq(ver_map.items, LAMBDA it : want = {} \/ it[1] \in want)
         IN  [j \in 1..Len(hit) |-> Row(date, IntOrZero(hit[j][2]), hit[j][1])]

\* the rows get_versions builds from the payload
versions_rows(data, versions) ==
    LET items == _parse_v2_downloads(data)
    IN  Concat([i \in 1..Len(items) |-> version_rows(items[i][1], items[i][2], versions)])

NoException == [type |-> "none", message |-> ""]

Unauthorized ==
    [type |-> "RuntimeError",
     message |-> "Unauthorized (401) from pepy.tech. Set PEPY_API_KEY or pass api_key."]

HTTPError == [type |-> "requests.exceptions.HTTPError", message |-> "error"]

\* a faulty variant: 401 is not told apart from the other error statuses
raise_for_status_no_401(resp) ==
    IF resp.status_code >= 400 THEN HTTPError ELSE NoException

\* a faulty variant: only 401 is an error
raise_for_status_only_401(resp) ==
    IF resp.status_code = 401 THEN Unauthorized ELSE NoException

\* the exception the status checks of get_overall and get_versions raise
raise_for_status(resp) ==
    IF resp.status_code = 401 THEN Unauthorized
    ELSE IF resp.status_code >= 400 THEN HTTPError
    ELSE NoException

(***************************************************************************)
(* The pivot and the renderers.  pivot_table aggregates with its default   *)
(* aggfunc, the mean: a cell is the pair [sum, count] standing for the     *)
(* quotient sum / count, and a cell without rows is fill_value = 0.        *)
(***************************************************************************)
Mean(rows) == [sum |-> SumDownloads(rows), count |-> Len(rows)]

pivot_table(frame) ==
    LET dates  == {frame[i].date : i \in 1..Len(frame)}
        labels == {frame[i].label : i \in 1..Len(frame)}
    IN  [index   |-> SortedDates(dates),
         columns |-> SortedLabels(labels),
         cell    |-> [d \in dates |-> [l \in labels |->
                        LET rows == SelectSeq(frame, LAMBDA row : row.date = d /\ row.label = l)
                        IN  IF rows = <<>> THEN [sum |-> 0, count |-> 1] ELSE Mean(rows)]]]

\* a faulty variant: the marker of the plain format in place of the Markdown one
to_markdown_plain_marker(frame) ==
    IF frame = <<>> THEN [text |-> "no data"]
    ELSE [text |-> "markdown table", wide |-> pivot_table(frame)]

to_markdown(frame) ==
    IF frame = <<>> THEN [text |-> "_no data_"]
    ELSE [text |-> "markdown table", wide |-> pivot_table(frame)]

to_csv(frame) ==
    IF frame = <<>> THEN [text |-> ""]
    ELSE [text |-> "csv table", wide |-> pivot_table(frame)]

RowLess(a, b) ==
    \/ LabelRank(a.label) < LabelRank(b.label)
    \/ a.label = b.label /\ DateLess(a.date, b.date)

RECURSIVE sort_values(_)
\* df.sort_values(["label", "date"]): a stable sort
sort_values(frame) ==
    IF frame = <<>> THEN <<>>
    ELSE LET n    == Len(frame)
             init == sort_values(SubSeq(frame, 1, n - 1))
             last == frame[n]
             keep == SelectSeq(init, LAMBDA row : ~RowLess(last, row))
             rest == SelectSeq(init, LAMBDA row : RowLess(last, row))
         IN  keep \o <<last>> \o rest

\* print(text, end=end): what reaches standard output
print(text, end) ==
    (IF text = [text |-> ""] THEN <<>> ELSE <<text>>)
        \o (IF end = "" THEN <<>> ELSE <<[text |-> end]>>)

\* what _print_df writes
_print_df(frame, fmt) ==
    IF fmt = "md" THEN print(to_markdown(frame), "\n")
    ELSE IF fmt = "csv" THEN print(to_csv(frame), "")
    ELSE IF frame = <<>> THEN print([text |-> "no data"], "\n")
    ELSE print([text |-> "plain table", rows |-> sort_values(frame)], "\n")

(***************************************************************************)
(* The two public fetchers, each as one call: the status checks, the rows  *)
(* built from the payload, the window, the resampling.                     *)
(***************************************************************************)
get_overall(resp, months, granularity, today) ==
    _apply_granularity(_trim_months(overall_rows(resp.json), months, today), granularity)

get_versions(resp, versions, months, granularity, today) ==
    _apply_granularity(_trim_months(versions_rows(resp.json, versions), months, today),
                       granularity)

(***************************************************************************)
(* Inputs.                                                                 *)
(***************************************************************************)
\* the "now" of tests/test_api.py, and a last day of a month one month after
\* a shorter month
Today == _to_naive_utc(<<2025, 8, 10>>)
Todays == {Today, _to_naive_utc(<<2025, 3, 31>>)}

MonthsArgs == {-1, 0, 1}
\* the months handed to _trim_months directly: also two months back, and
\* thirteen, which crosses a year and lands in a leap February
LibMonths == MonthsArgs \cup {2, 13}
Formats == {"plain", "md", "csv"}

\* the sequences without repetition of at most n elements of S
RECURSIVE Arrangements(_, _)
Arrangements(S, n) ==
    IF n = 0 THEN {<<>>}
    ELSE {<<>>} \cup UNION {{<<x>> \o t : t \in Arrangements(S \ {x}, n - 1)} : x \in S}

\* JSON counts: null and the numbers 0..MaxCount
Counts == {<<>>} \cup {<<n>> : n \in 0..MaxCount}

\* a JSON object with the keys of the arrangement ks and values of V
Objects(ks, V) == {[i \in 1..Len(ks) |-> <<ks[i], vs[i]>>] : vs \in [1..Len(ks) -> V]}

Dict(items) == [isdict |-> TRUE, items |-> items, value |-> <<>>]
Bare(value) == [isdict |-> FALSE, items |-> <<>>, value |-> value]

\* the values a payload of the model holds under a date
VerMaps(versions) ==
    {Dict(items) : items \in UNION {Objects(ks, Counts) : ks \in Arrangements(versions, 2)}}
        \cup {Bare(c) : c \in Counts}

\* the payloads with at most MaxDates of the given dates
Payloads(dates, vermaps) ==
    UNION {Objects(ks, vermaps) : ks \in Arrangements(dates, MaxDates)}

Response(status, payload) ==
    [status_code |-> status, json |-> [id |-> "pkg", downloads |-> payload]]

\* a failed request: the body of the error responses of the tests is {}
ErrorResponses == {[status_code |-> st, json |-> [id |-> "pkg"]] : st \in {401, 404, 500}}

ApiDates == {<<2025, 6, 30>>, <<2025, 7, 10>>}
ApiResponses ==
    {Response(200, p) : p \in Payloads(ApiDates, VerMaps({"1.0", "2.0"}))}
        \cup ErrorResponses

WantSets == {{"1.0"}, {"2.0", "3.0"}, {"3.0"}}

NoArgs == [fn |-> "none", months |-> 0, granularity |-> "daily", fmt |-> "plain",
           versions |-> {}]

(***************************************************************************)
(* ApiSpec: one call of get_overall or get_versions on a response.         *)
(***************************************************************************)
ApiInit ==
    /\ pc = "call"
    /\ args = NoArgs
    /\ now = Today
    /\ r \in ApiResponses
    /\ df = <<>>
    /\ ret = <<>>
    /\ exc = NoException
    /\ stdout = <<>>
    /\ rc = -1

call_get_overall ==
    /\ pc = "call"
    /\ \E months \in MonthsArgs, granularity \in Granularities :
        /\ args' = [NoArgs EXCEPT !.fn = "get_overall", !.months = months,
                                  !.granularity = granularity]
        /\ exc' = raise_for_status(r)
        /\ IF raise_for_status(r) = NoException
           THEN pc' = "returned" /\ ret' = get_overall(r, months, granularity, now)
           ELSE pc' = "raised" /\ ret' = ret
    /\ UNCHANGED <<now, r, df, stdout, rc>>

call_get_versions ==
    /\ pc = "call"
    /\ \E versions \in WantSets, months \in MonthsArgs, granularity \in Granularities :
        /\ args' = [NoArgs EXCEPT !.fn = "get_versions", !.months = months,
                                  !.granularity = granularity, !.versions = versions]
        /\ exc' = raise_for_status(r)
        /\ IF raise_for_status(r) = NoException
           THEN pc' = "returned" /\ ret' = get_versions(r, versions, months, granularity, now)
           ELSE pc' = "raised" /\ ret' = ret
    /\ UNCHANGED <<now, r, df, stdout, rc>>

ApiNext == call_get_overall \/ call_get_versions

ApiSpec == ApiInit /\ [][ApiNext]_vars

(***************************************************************************)
(* LibSpec: one call of a helper of api.py or cli.py on a DataFrame.       *)
(***************************************************************************)
LibDates ==
    {<<2025, 2, 27>>, <<2025, 2, 28>>, <<2025, 7, 9>>, <<2025, 7, 10>>, <<2025, 8, 9>>}

LibRows == {Row(d, n, l) : d \in LibDates, n \in 1..MaxDownloads, l \in {"A", "B"}}

\* the rows of test_trim_months_uses_utc_and_is_tz_safe
TrimFixture ==
    <<Row(<<2025, 6, 30>>, 1, "total"), Row(<<2025, 7, 10>>, 2, "total"),
      Row(<<2025, 8, 5>>, 3, "total")>>

\* the rows of test_granularity_weekly_resamples: Sunday 2025-08-03 to
\* Saturday 2025-08-09 with downloads 1..7
WeekFixture == [i \in 1..7 |-> Row(<<2025, 8, 2 + i>>, i, "total")]

\* the rows of test_to_markdown_and_csv_are_pivoted
PivotFixture ==
    <<Row(<<2025, 8, 8>>, 1, "A"), Row(<<2025, 8, 8>>, 2, "B"), Row(<<2025, 8, 9>>, 3, "A")>>

\* two rows more than a year apart, the first on the last Sunday of 2023
YearGapFrame == <<Row(<<2023, 12, 31>>, 1, "A"), Row(<<2025, 1, 1>>, 2, "A")>>

Frames ==
    UNION {[1..n -> LibRows] : n \in 0..MaxRows}
        \cup {TrimFixture, WeekFixture, PivotFixture, YearGapFrame}

LibInit ==
    /\ pc = "call"
    /\ args = NoArgs
    /\ now = Today
    /\ r = [status_code |-> 0, json |-> [id |-> "pkg"]]
    /\ df \in Frames
    /\ ret = <<>>
    /\ exc = NoException
    /\ stdout = <<>>
    /\ rc = -1

\* _trim_months reads the clock itself
call_trim_months ==
    /\ pc = "call"
    /\ \E months \in LibMonths, today \in Todays :
        /\ now' = today
        /\ args' = [NoArgs EXCEPT !.fn = "_trim_months", !.months = months]
        /\ ret' = _trim_months(df, months, today)
    /\ pc' = "returned"
    /\ UNCHANGED <<r, df, exc, stdout, rc>>

call_apply_granularity ==
    /\ pc = "call"
    /\ \E granularity \in Granularities \cup {"hourly"} :
        /\ args' = [NoArgs EXCEPT !.fn = "_apply_granularity", !.granularity = granularity]
        /\ ret' = _apply_granularity(df, granularity)
    /\ pc' = "returned"
    /\ UNCHANGED <<now, r, df, exc, stdout, rc>>

call_to_markdown ==
    /\ pc = "call"
    /\ args' = [NoArgs EXCEPT !.fn = "to_markdown", !.fmt = "md"]
    /\ ret' = to_markdown(df)
    /\ pc' = "returned"
    /\ UNCHANGED <<now, r, df, exc, stdout, rc>>

call_to_csv ==
    /\ pc = "call"
    /\ args' = [NoArgs EXCEPT !.fn = "to_csv", !.fmt = "csv"]
    /\ ret' = to_csv(df)
    /\ pc' = "returned"
    /\ UNCHANGED <<now, r, df, exc, stdout, rc>>

call_print_df ==
    /\ pc = "call"
    /\ \E fmt \in Formats :
        /\ args' = [NoArgs EXCEPT !.fn = "_print_df", !.fmt = fmt]
        /\ stdout' = stdout \o _print_df(df, fmt)
    /\ pc' = "returned"
    /\ UNCHANGED <<now, r, df, ret, exc, rc>>

LibNext ==
    \/ call_trim_months
    \/ call_apply_granularity
    \/ call_to_markdown
    \/ call_to_csv
    \/ call_print_df

LibSpec == LibInit /\ [][LibNext]_vars

(***************************************************************************)
(* Spec: one run of the command line, statement by statement through main  *)
(* and the fetcher it calls.                                               *)
(***************************************************************************)
CliDates == {<<2025, 6, 30>>, <<2025, 7, 10>>, <<2025, 8, 5>>}

\* per-version objects with at most the version "1.0"
CliVerMaps == {Dict(items) : items \in UNION {Objects(ks, Counts) : ks \in {<<>>, <<"1.0">>}}}

CliResponses ==
    {Response(200, p) : p \in Payloads(CliDates, CliVerMaps)} \cup ErrorResponses

\* parser.parse_args(argv): "overall" has no --versions, "versions" requires it
CliArgs ==
    {[fn |-> "overall", months |-> m, granularity |-> g, fmt |-> f, versions |-> {}] :
        m \in MonthsArgs, g \in Granularities, f \in Formats}
    \cup
    {[fn |-> "versions", months |-> m, granularity |-> g, fmt |-> f, versions |-> w] :
        m \in MonthsArgs, g \in Granularities, f \in Formats, w \in {{"1.0"}, {"3.0"}}}

Init ==
    /\ pc = "requests_get"
    /\ args \in CliArgs
    /\ now = Today
    /\ r = [status_code |-> 0, json |-> [id |-> "pkg"]]
    /\ df = <<>>
    /\ ret = <<>>
    /\ exc = NoException
    /\ stdout = <<>>
    /\ rc = -1

\* r = requests.get(url, headers=..., timeout=30)
requests_get ==
    /\ pc = "requests_get"
    /\ r' \in CliResponses
    /\ pc' = "status"
    /\ UNCHANGED <<args, now, df, ret, exc, stdout, rc>>

\* if r.status_code == 401: raise RuntimeError(...); r.raise_for_status()
check_status ==
    /\ pc = "status"
    /\ exc' = raise_for_status(r)
    /\ pc' = IF raise_for_status(r) = NoException THEN "rows" ELSE "raised"
    /\ UNCHANGED <<args, now, r, df, ret, stdout, rc>>

\* the loop over the payload and pd.DataFrame(rows, ...)
build_rows ==
    /\ pc = "rows"
    /\ df' = IF args.fn = "overall" THEN overall_rows(r.json)
             ELSE versions_rows(r.json, args.versions)
    /\ pc' = "trim"
    /\ UNCHANGED <<args, now, r, ret, exc, stdout, rc>>

\* df = _trim_months(df, months)
trim ==
    /\ pc = "trim"
    /\ df' = _trim_months(df, args.months, now)
    /\ pc' = "granularity"
    /\ UNCHANGED <<args, now, r, ret, exc, stdout, rc>>

\* df = _apply_granularity(df, granularity); return df
resample ==
    /\ pc = "granularity"
    /\ df' = _apply_granularity(df, args.granularity)
    /\ pc' = "print"
    /\ UNCHANGED <<args, now, r, ret, exc, stdout, rc>>

\* _print_df(df, args.fmt)
print_df ==
    /\ pc = "print"
    /\ stdout' = stdout \o _print_df(df, args.fmt)
    /\ pc' = "exit"
    /\ UNCHANGED <<args, now, r, df, ret, exc, rc>>

\* main returns None: sys.exit(main()) ends the process with status 0
exit_ok ==
    /\ pc = "exit"
    /\ rc' = 0
    /\ pc' = "done"
    /\ UNCHANGED <<args, now, r, df, ret, exc, stdout>>

\* main catches nothing: the exception ends the process with status 1
exit_uncaught ==
    /\ pc = "raised"
    /\ rc' = 1
    /\ pc' = "done"
    /\ UNCHANGED <<args, now, r, df, ret, exc, stdout>>

Next ==
    \/ requests_get
    \/ check_status
    \/ build_rows
    \/ trim
    \/ resample
    \/ print_df
    \/ exit_ok
    \/ exit_uncaught

Spec == Init /\ [][Next]_vars

(***************************************************************************)
(* Properties of the fetchers, checked under ApiSpec.                      *)
(***************************************************************************)
\* the payload of the response, a sequence of <<date, value>> pairs
PayloadItems == IF "downloads" \in DOMAIN r.json THEN r.json.downloads ELSE <<>>

\* a count as the claims read it: null counts as 0
CountValue(c) == IF c = <<>> THEN 0 ELSE c[1]

RECURSIVE SumOver(_, _)
\* the sum of the counts at the places I of the per-version pairs
SumOver(items, I) ==
    IF I = {} THEN 0
    ELSE LET i == CHOOSE x \in I : TRUE
         IN  CountValue(items[i][2]) + SumOver(items, I \ {i})

AllDicts == \A k \in 1..Len(PayloadItems) : PayloadItems[k][2].isdict

\* C1: for a successful response whose payload maps dates to per-version
\* counts, get_overall with months <= 0 and daily granularity returns exactly
\* one row per date of the payload, labelled "total", whose downloads is the
\* sum of that date's per-version counts, null counting as 0.
C1_OverallOneRowPerDate ==
    (/\ pc = "returned" /\ args.fn = "get_overall"
     /\ args.months <= 0 /\ args.granularity = "daily" /\ AllDicts)
    => /\ Len(ret) = Len(PayloadItems)
       /\ \A k \in 1..Len(PayloadItems) :
            /\ Cardinality({i \in 1..Len(ret) : ret[i].date = PayloadItems[k][1]}) = 1
            /\ \A i \in 1..Len(ret) :
                ret[i].date = PayloadItems[k][1]
                => /\ ret[i].label = "total"
                   /\ ret[i].downloads =
                        SumOver(PayloadItems[k][2].items, DOMAIN PayloadItems[k][2].items)

\* C1 witness: two dates, one of them with a null count beside a positive one
C1_Witness ==
    /\ pc = "returned" /\ args.fn = "get_overall"
    /\ args.months <= 0 /\ args.granularity = "daily" /\ AllDicts
    /\ Len(PayloadItems) = 2
    /\ PayloadItems[1][2].items = << <<"2.0", <<1>> >>, <<"1.0", <<>> >> >>
    /\ PayloadItems[2][2].items = << <<"1.0", <<1>> >>, <<"2.0", <<1>> >> >>
    /\ ret[1].downloads = 1 /\ ret[2].downloads = 2

\* the (date, version) pairs of the payload whose version is requested
WantedPairs ==
    UNION {{<<k, j>> : j \in {j \in DOMAIN PayloadItems[k][2].items :
                                PayloadItems[k][2].items[j][1] \in args.versions}} :
           k \in {k \in 1..Len(PayloadItems) : PayloadItems[k][2].isdict}}

\* C2: for a successful response and a non-empty requested version set W,
\* get_versions with months <= 0 and daily granularity returns exactly one row
\* per (date, version) pair of the payload with version in W, with that pair's
\* count and label = version, and no row with a label outside W; a requested
\* version absent from the payload gives no row and no error.
C2_VersionsFiltered ==
    (/\ pc = "returned" /\ args.fn = "get_versions"
     /\ args.months <= 0 /\ args.granularity = "daily" /\ args.versions # {})
    => /\ exc = NoException
       /\ \A i \in 1..Len(ret) : ret[i].label \in args.versions
       /\ Len(ret) = Cardinality(WantedPairs)
       /\ \A p \in WantedPairs :
            LET date == PayloadItems[p[1]][1]
                pair == PayloadItems[p[1]][2].items[p[2]]
                hits == {i \in 1..Len(ret) : ret[i].date = date /\ ret[i].label = pair[1]}
            IN  /\ Cardinality(hits) = 1
                /\ \A i \in hits : ret[i].downloads = CountValue(pair[2])

\* C2 witness: "2.0" and the absent "3.0" requested, "1.0" and "2.0" in the payload
C2_Witness ==
    /\ pc = "returned" /\ args.fn = "get_versions"
    /\ args.months <= 0 /\ args.granularity = "daily"
    /\ args.versions = {"2.0", "3.0"}
    /\ exc = NoException
    /\ Len(PayloadItems) = 2
    /\ PayloadItems[1][2].items = << <<"1.0", <<1>> >>, <<"2.0", <<1>> >> >>
    /\ PayloadItems[2][2].items = << <<"1.0", <<1>> >> >>
    /\ Len(ret) = 1 /\ ret[1].label = "2.0"

\* C3: in get_overall and in get_versions a 401 raises the Unauthorized
\* RuntimeError, every other status >= 400 raises an error of another kind,
\* and in neither case is a row collection returned.
C3_UnauthorizedDistinct ==
    (pc # "call" /\ r.status_code >= 400)
    => /\ pc = "raised"
       /\ ret = <<>>
       /\ r.status_code = 401
            => exc.type = "RuntimeError" /\ exc = Unauthorized
       /\ r.status_code # 401
            => exc.type # "RuntimeError" /\ exc # Unauthorized /\ exc # NoException

\* C3 witness: get_versions answered with 401
C3_Witness ==
    /\ pc = "raised" /\ args.fn = "get_versions"
    /\ r.status_code = 401 /\ exc = Unauthorized

(***************************************************************************)
(* Properties of the helpers, checked under LibSpec.                       *)
(***************************************************************************)
\* C5: _trim_months with months = 0 or negative returns the collection
\* unchanged, whatever the dates of the rows and the current time.
C5_NonPositiveMonthsNoOp ==
    (pc = "returned" /\ args.fn = "_trim_months" /\ args.months <= 0)
    => ret = df

\* C5 witness: months = 0 on rows dated long before today
C5_Witness ==
    /\ pc = "returned" /\ args.fn = "_trim_months" /\ args.months = 0
    /\ now = Today
    /\ df = YearGapFrame
    /\ ret = df

\* the cutoff as the claim words it: the day of today's day-of-month in the
\* month 'months' calendar months earlier, or the last day of that month when
\* it has no such day
ClaimCutoff ==
    LET t  == strftime(now)
        ym == CHOOSE c \in ((t[1] - 2)..t[1]) \X (1..12) :
                c[1] * 12 + c[2] + args.months = t[1] * 12 + t[2]
        d  == CHOOSE c \in 1..DaysInMonth(ym[1], ym[2]) :
                c = t[3] \/ (c = DaysInMonth(ym[1], ym[2]) /\ c < t[3])
    IN  <<ym[1], ym[2], d>>

\* C6: for months > 0, _trim_months keeps exactly the rows dated on or after
\* the cutoff (today minus 'months' calendar months, the day clamped to the
\* month's last day), with downloads and label unchanged; with now 2025-08-10
\* and months = 1 the rows of 2025-06-30, 2025-07-10, 2025-08-05 reduce to
\* those of 2025-07-10 and 2025-08-05.
C6_KeepsOnOrAfterCutoff ==
    (pc = "returned" /\ args.fn = "_trim_months" /\ args.months > 0)
    => LET cutoff == ClaimCutoff
           kept   == SelectSeq(df, LAMBDA row : ~DateLess(row.date, cutoff))
       IN  /\ Len(ret) = Len(kept)
           /\ \A i \in 1..Len(ret) :
                /\ ret[i].date = kept[i].date
                /\ ret[i].downloads = kept[i].downloads
                /\ ret[i].label = kept[i].label
           /\ (now = Today /\ args.months = 1 /\ df = TrimFixture)
                => {ret[i].date : i \in 1..Len(ret)} = {<<2025, 7, 10>>, <<2025, 8, 5>>}

\* C6 witness: today 2025-03-31, one month back: the cutoff is clamped to
\* 2025-02-28, the row of that day is kept and the row of the day before dropped
C6_Witness ==
    /\ pc = "returned" /\ args.fn = "_trim_months" /\ args.months = 1
    /\ now = _to_naive_utc(<<2025, 3, 31>>)
    /\ ClaimCutoff = <<2025, 2, 28>>
    /\ df = <<Row(<<2025, 2, 27>>, 1, "A"), Row(<<2025, 2, 28>>, 2, "B")>>
    /\ ret = <<Row(<<2025, 2, 28>>, 2, "B")>>

\* the Saturday that closes the Sunday-to-Saturday week of a date
ClosingSaturday(date) ==
    LET t == _to_naive_utc(date)
    IN  strftime(CHOOSE s \in t..(t + 6) : weekday(s) = 5)

\* C7: weekly granularity puts every row of a label into the Sunday-to-Saturday
\* week of its date and returns for that week one row dated on its closing
\* Saturday, with that label and the sum of the downloads of the label's rows
\* of the week; Sunday to Saturday with downloads 1..7 gives one row of 28, and
\* daily granularity returns the rows unchanged.
C7_WeeklySums ==
    (pc = "returned" /\ args.fn = "_apply_granularity")
    => /\ args.granularity = "weekly"
            => /\ \A i \in 1..Len(df) :
                    LET sat  == ClosingSaturday(df[i].date)
                        hits == {j \in 1..Len(ret) :
                                    ret[j].label = df[i].label /\ ret[j].date = sat}
                        week == SelectSeq(df, LAMBDA row :
                                    row.label = df[i].label /\ ClosingSaturday(row.date) = sat)
                    IN  /\ Cardinality(hits) = 1
                        /\ \A j \in hits : ret[j].downloads = SumDownloads(week)
               /\ df = WeekFixture => ret = <<Row(<<2025, 8, 9>>, 28, "total")>>
       /\ args.granularity = "daily" => ret = df

\* C7 witness: the seven days of the test, resampled weekly
C7_Witness ==
    /\ pc = "returned" /\ args.fn = "_apply_granularity"
    /\ args.granularity = "weekly"
    /\ df = WeekFixture
    /\ ret = <<Row(<<2025, 8, 9>>, 28, "total")>>

\* the date that names the bucket of a date, as section 4.4 of the
\* specification words it
ClaimBucket(date, granularity) ==
    IF granularity = "weekly" THEN ClosingSaturday(date)
    ELSE IF granularity = "monthly" THEN <<date[1], date[2], 1>>
    ELSE <<date[1], 1, 1>>

Coarse == {"weekly", "monthly", "yearly"}

\* C8 as claimed: the output of a coarser granularity is sparse: a row for a
\* bucket only if a row of that label falls into the bucket.
C8_SparseAsClaimed ==
    (pc = "returned" /\ args.fn = "_apply_granularity" /\ args.granularity \in Coarse)
    => \A j \in 1..Len(ret) :
         \E i \in 1..Len(df) :
            /\ df[i].label = ret[j].label
            /\ ClaimBucket(df[i].date, args.granularity) = ret[j].date

\* the dates that name the buckets from the one of date lo to the one of date hi
BucketsBetween(lo, hi, granularity) ==
    IF granularity = "weekly"
    THEN {strftime(t) : t \in {t \in _to_naive_utc(lo)..(_to_naive_utc(hi) + 6) :
                                  weekday(t) = 5}}
    ELSE IF granularity = "monthly"
    THEN {<<y, m, 1>> : y \in lo[1]..hi[1], m \in 1..12} \
            ({<<lo[1], m, 1>> : m \in 1..(lo[2] - 1)}
                \cup {<<hi[1], m, 1>> : m \in (hi[2] + 1)..12})
    ELSE {<<y, 1, 1>> : y \in lo[1]..hi[1]}

\* C8 as amended: for every label the output holds exactly one row for every
\* bucket from the bucket of the label's earliest row to the bucket of its
\* latest row and no other row; the downloads of a row is the sum over the
\* label's rows of the bucket, which is 0 for a bucket in between that no row
\* falls into.
C8_DenseBetweenFirstAndLast ==
    (pc = "returned" /\ args.fn = "_apply_granularity" /\ args.granularity \in Coarse)
    => /\ {ret[j].label : j \in 1..Len(ret)} = {df[i].label : i \in 1..Len(df)}
       /\ \A l \in {df[i].label : i \in 1..Len(df)} :
            LET grp   == SelectSeq(df, LAMBDA row : row.label = l)
                dates == {grp[i].date : i \in 1..Len(grp)}
                lo    == CHOOSE d \in dates : \A e \in dates : ~DateLess(e, d)
                hi    == CHOOSE d \in dates : \A e \in dates : ~DateLess(d, e)
                out   == SelectSeq(ret, LAMBDA row : row.label = l)
                want  == BucketsBetween(lo, hi, args.granularity)
            IN  /\ {out[j].date : j \in 1..Len(out)} = want
                /\ Len(out) = Cardinality(want)
                /\ \A j \in 1..Len(out) :
                     out[j].downloads =
                        SumDownloads(SelectSeq(grp, LAMBDA row :
                            ClaimBucket(row.date, args.granularity) = out[j].date))

\* C8 witness: rows in February and July only, and a row of 0 for April
C8_Witness ==
    /\ pc = "returned" /\ args.fn = "_apply_granularity"
    /\ args.granularity = "monthly"
    /\ df = <<Row(<<2025, 2, 27>>, 1, "A"), Row(<<2025, 7, 9>>, 2, "A")>>
    /\ Len(ret) = 6
    /\ ret[3] = Row(<<2025, 4, 1>>, 0, "A")

\* C9 as claimed: the pivot of to_markdown and to_csv has one row per date in
\* ascending order and one column per label, each cell holds the sum of the
\* downloads of the rows of its (date, label) pair, also when several rows
\* share the pair, and 0 when no row has the pair.
C9_PivotCellsAreSums ==
    (pc = "returned" /\ args.fn \in {"to_markdown", "to_csv"} /\ df # <<>>)
    => LET dates  == {df[i].date : i \in 1..Len(df)}
           labels == {df[i].label : i \in 1..Len(df)}
           wide   == ret.wide
       IN  /\ {wide.index[i] : i \in 1..Len(wide.index)} = dates
           /\ Len(wide.index) = Cardinality(dates)
           /\ \A i \in 1..(Len(wide.index) - 1) : DateLess(wide.index[i], wide.index[i + 1])
           /\ {wide.columns[i] : i \in 1..Len(wide.columns)} = labels
           /\ Len(wide.columns) = Cardinality(labels)
           /\ \A d \in dates, l \in labels :
                wide.cell[d][l].sum =
                    wide.cell[d][l].count *
                        SumDownloads(SelectSeq(df, LAMBDA row : row.date = d /\ row.label = l))

(***************************************************************************)
(* Properties of a run of the command line, checked under Spec.            *)
(***************************************************************************)
\* the table of the run: the frame the fetcher returns for the response
PipelineResult ==
    IF args.fn = "overall" THEN get_overall(r, args.months, args.granularity, now)
    ELSE get_versions(r, args.versions, args.months, args.granularity, now)

\* C4: a run whose fetch is answered with a status >= 400 writes nothing to
\* standard output and ends with a non-zero exit status; output is written
\* only after fetch, normalize, filter and resample have completed, and it is
\* then the whole rendered table: every run prints all of it or nothing.
C4_AllOrNothing ==
    /\ r.status_code >= 400 => stdout = <<>>
    /\ (pc = "done" /\ r.status_code >= 400) => rc # 0
    /\ pc \in {"requests_get", "status", "rows", "trim", "granularity", "print", "raised"}
            => stdout = <<>>
    /\ stdout # <<>>
            => /\ pc \in {"exit", "done"}
               /\ exc = NoException
               /\ df = PipelineResult
               /\ stdout = _print_df(PipelineResult, args.fmt)
    /\ pc = "done" => (rc = 0 <=> r.status_code < 400)

\* C4 witness: a run answered with 500 has ended, with status 1 and no output
C4_Witness ==
    /\ pc = "done" /\ r.status_code = 500
    /\ exc = HTTPError /\ rc = 1 /\ stdout = <<>>

\* C10: rendering an empty row collection does not fail and gives
\* "_no data_" for markdown, the empty string for csv and "no data" for
\* plain, whether the collection is empty because the payload is, because the
\* window dropped every row or because no requested version is present.
C10_EmptyMarkers ==
    (pc \in {"exit", "done"} /\ r.status_code < 400 /\ df = <<>>)
    => /\ exc = NoException
       /\ args.fmt = "md" => stdout = <<[text |-> "_no data_"], [text |-> "\n"]>>
       /\ args.fmt = "csv" => stdout = <<>>
       /\ args.fmt = "plain" => stdout = <<[text |-> "no data"], [text |-> "\n"]>>
       /\ pc = "done" => rc = 0

\* C10 witness: a payload whose only row the window drops, rendered as markdown
C10_Witness ==
    /\ pc = "done" /\ rc = 0
    /\ args.fn = "overall" /\ args.months = 1 /\ args.fmt = "md"
    /\ Len(PayloadItems) = 1 /\ PayloadItems[1][1] = <<2025, 6, 30>>
    /\ df = <<>>
    /\ stdout = <<[text |-> "_no data_"], [text |-> "\n"]>>

====
